---------------------------- MODULE Spec2Model ----------------------------
(***************************************************************************)
(* Verification model of buttercup's interactive search                    *)
(* (src/buttercup/cogs/search.py): the SearchCache, the page mapping of    *)
(* Search._search_from_cache and the reaction driven navigation.           *)
(*                                                                         *)
(* Twelve specifications share the definitions below:                      *)
(*   SpecCache  the SearchCache class driven through set/get by a caller   *)
(*              that passes explicit times (as test_search.py does);       *)
(*   SpecAlias  the same class with the stored dicts as heap objects, and  *)
(*              a caller that writes to the dict a get handed out;         *)
(*   SpecPage   the page arithmetic of _search_from_cache, input by input; *)
(*   Spec       the Search cog: the /search command and on_reaction_add,   *)
(*              cut at their await points;                                 *)
(*   SpecClock  the same cog with the clock running and a larger cache;    *)
(*   SpecShow   one session of the cog with what its message displays;     *)
(*   SpecSessions  several sessions with their displays, over a provider   *)
(*              with small result sets;                                    *)
(*   SpecHighlight  format_query_occurrence, input by input;               *)
(*   SpecDescribe   create_result_description, input by input;             *)
(*   SpecRace   several sessions and two handlers at a time;               *)
(*   SpecSame   one session with its display and two handlers at a time;   *)
(*   SpecLive   SpecShow with the event loop resuming the handlers.        *)
(***************************************************************************)
EXTENDS Integers, Sequences, FiniteSets, TLC

VARIABLES
    capacity,   \* SearchCache.capacity
    cache,      \* SearchCache.cache: the dict, as its items in insertion order
    heap,       \* SpecAlias: the SearchCacheItem dicts, by object identity
    ret,        \* what the caller's last get returned (<<>> is None)
    last,       \* history: the last SearchCache call and what it did
    pm,         \* SpecPage, SpecHighlight, SpecDescribe: the input and the results
                \*   of the function applied
    now,        \* Spec: the clock, datetime.now()
    sent,       \* Spec: the messages sent so far, numbered 1..sent
    shown,      \* Spec: what each message displays
    controls,   \* Spec: the control emojis the bot has on each message
    hs,         \* Spec: the running handlers, each at an await point
    ev,         \* history: the last step taken, who caused it, the requests it made
    written     \* history: when and by what each message's entry was last set

(***************************************************************************)
(* Bounds of the model.                                                    *)
(***************************************************************************)
MaxCap == 2          \* SpecCache: capacities 0..MaxCap
MaxKey == 3          \* SpecCache: message ids 1..MaxKey
MaxTime == 2         \* SpecCache: explicit times 0..MaxTime
MaxAliasKey == 2     \* SpecAlias: message ids 1..MaxAliasKey
MaxAliasCap == 1     \* SpecAlias: capacities 0..MaxAliasCap
MaxPage == 60        \* SpecPage: display pages 0..MaxPage
MaxMsgs == 2         \* Spec: /search commands answered (messages 1..MaxMsgs)
MaxClock == 1        \* SpecClock: the clock runs from ImportTime to ImportTime + MaxClock
\* Search.__init__ builds SearchCache(10).  The cog is run here with a smaller
\* cache, so that MaxMsgs sessions are enough to exceed it.
CogCapacity == 1
MaxClockMsgs == 3    \* SpecClock: /search commands answered
ClockCapacity == 2   \* SpecClock: the cog's cache capacity (10 in the source)
ShowMsgs == 1        \* SpecShow: /search commands answered
ShowCapacity == 1    \* SpecShow: the cog's cache capacity (10 in the source)
SessionMsgs == 2     \* SpecSessions: /search commands answered
SessionCapacity == 1 \* SpecSessions: the cog's cache capacity (10 in the source)

MaxContext == 12     \* SpecHighlight: contexts of 0..MaxContext characters,
LongContext == 98    \*   and of LongContext characters on either side
MaxQuery == 52       \* SpecHighlight: queries of 1..MaxQuery characters
MaxLineNum == 10     \* SpecHighlight: line numbers 1 and MaxLineNum
MaxText == 6         \* SpecDescribe: texts of 0..MaxText characters

RaceMsgs == 2        \* SpecRace: messages 1..RaceMsgs
RaceCapacity == 2    \* SpecRace: the cog's cache capacity
SameMsgs == 1        \* SpecSame: messages 1..SameMsgs
SameCapacity == 1    \* SpecSame: the cog's cache capacity

Keys == 1..MaxKey
Times == 0..MaxTime

(***************************************************************************)
(* Python values.  An Optional is a sequence of at most one element.       *)
(***************************************************************************)
None == <<>>
Some(x) == <<x>>

\* A SearchCacheItem (the fields the handlers read; query stands for the
\* query text and its filters, which are copied unchanged).
SearchCacheItem(q, u, p, rd, rp) ==
    [query |-> q, discord_user_id |-> u, cur_page |-> p,
     response_data |-> rd, request_page |-> rp]

(***************************************************************************)
(* A Python dict keeps its items in insertion order; assigning to a key    *)
(* that is present keeps the key's position.                               *)
(***************************************************************************)
HasKey(c, k) == \E i \in 1..Len(c) : c[i].key = k

DictSetItem(c, k, v) ==
    IF HasKey(c, k)
    THEN [i \in 1..Len(c) |-> IF c[i].key = k THEN v ELSE c[i]]
    ELSE Append(c, v)

DictPop(c, k) == SelectSeq(c, LAMBDA e : e.key # k)

\* sorted(items, key=last_modified): Python's sort is stable.  Built as an
\* insertion sort that puts x behind every item that is not newer than it.
\* A slip in the sort: an item goes in front of the items as old as itself,
\* so that ties come out in reverse insertion order.
RECURSIVE InsertUnstable(_, _)
InsertUnstable(x, s) ==
    IF s = <<>> THEN <<x>>
    ELSE IF s[Len(s)].last_modified < x.last_modified
         THEN Append(s, x)
         ELSE Append(InsertUnstable(x, SubSeq(s, 1, Len(s) - 1)), s[Len(s)])

RECURSIVE InsertStable(_, _)
InsertStable(x, s) ==
    IF s = <<>> THEN <<x>>
    ELSE IF s[Len(s)].last_modified <= x.last_modified
         THEN Append(s, x)
         ELSE Append(InsertStable(x, SubSeq(s, 1, Len(s) - 1)), s[Len(s)])

RECURSIVE SortedByLastModified(_)
SortedByLastModified(c) ==
    IF c = <<>> THEN <<>>
    ELSE InsertStable(c[Len(c)], SortedByLastModified(SubSeq(c, 1, Len(c) - 1)))

\* A slip in the eviction choice: the newest entry goes instead of the oldest.
CleanNewest(c, cap) ==
    IF Len(c) > cap
    THEN DictPop(c, SortedByLastModified(c)[Len(c)].key)
    ELSE c

\* A slip in the guard: a cache that is just full is cleaned as well.
CleanAtCapacity(c, cap) ==
    IF Len(c) >= cap /\ c # <<>>
    THEN DictPop(c, SortedByLastModified(c)[1].key)
    ELSE c

\* SearchCache._clean
Clean(c, cap) ==
    IF Len(c) > cap
    THEN DictPop(c, SortedByLastModified(c)[1].key)
    ELSE c

\* A set that forgets to clean.
SearchCacheSetNoClean(c, cap, msg_id, entry, time) ==
    DictSetItem(c, msg_id,
                [key |-> msg_id, last_modified |-> time, element |-> entry])

\* SearchCache.set
SearchCacheSet(c, cap, msg_id, entry, time) ==
    Clean(DictSetItem(c, msg_id,
                      [key |-> msg_id, last_modified |-> time, element |-> entry]),
          cap)

\* The smallest object id in 1..n that hp does not hold (n + 1 when all are held).
FreshObj(hp, n) ==
    IF \E o \in 1..n : o \notin DOMAIN hp
    THEN CHOOSE o \in 1..n : o \notin DOMAIN hp /\ \A x \in 1..(o - 1) : x \in DOMAIN hp
    ELSE n + 1

Lookup(c, k) == SelectSeq(c, LAMBDA e : e.key = k)

\* A get that refreshes the entry it reads (a least-recently-read cache).
SearchCacheGetRefresh(c, hp, msg_id) ==
    LET hit == Lookup(c, msg_id)
        newest == IF c = <<>> THEN 0
                  ELSE SortedByLastModified(c)[Len(c)].last_modified
    IN [cache |-> [i \in 1..Len(c) |->
                      IF c[i].key = msg_id
                      THEN [c[i] EXCEPT !.last_modified = newest + 1]
                      ELSE c[i]],
        heap |-> hp,
        result |-> IF hit # <<>> THEN Some(hit[1].element) ELSE None]

\* A get that stores an empty entry on a miss (dict.setdefault) and returns it.
SearchCacheGetOrCreate(c, hp, msg_id) ==
    LET hit == Lookup(c, msg_id)
        empty == SearchCacheItem(0, 0, 0, None, 0)
    IN IF hit # <<>>
       THEN [cache |-> c, heap |-> hp, result |-> Some(hit[1].element)]
       ELSE [cache |-> Append(c, [key |-> msg_id, last_modified |-> 0,
                                  element |-> empty]),
             heap |-> hp,
             result |-> Some(empty)]

\* A get that hands out a copy of the stored dict.
SearchCacheGetCopy(c, hp, msg_id) ==
    LET hit == Lookup(c, msg_id)
        o == FreshObj(hp, Cardinality(DOMAIN hp))
    IN IF hit # <<>>
       THEN [cache |-> c,
             heap |-> [x \in DOMAIN hp \cup {o} |->
                          IF x = o THEN hp[hit[1].element] ELSE hp[x]],
             result |-> Some(o)]
       ELSE [cache |-> c, heap |-> hp, result |-> None]

\* SearchCache.get: the cache and the heap after the call, and what it returns
\* (item["element"], the stored object itself).
SearchCacheGet(c, hp, msg_id) ==
    LET hit == Lookup(c, msg_id)
    IN [cache |-> c,
        heap |-> hp,
        result |-> IF hit # <<>> THEN Some(hit[1].element) ELSE None]

(***************************************************************************)
(* The page arithmetic of Search.                                          *)
(***************************************************************************)
discord_page_size == 5
request_page_size == discord_page_size * 5

\* A slip: the display page taken for a record offset.
RequestPageNoScale(discord_page) == discord_page \div request_page_size

\* request_page = (discord_page * self.discord_page_size) // self.request_page_size
RequestPage(discord_page) ==
    (discord_page * discord_page_size) \div request_page_size

\* A slip: the offset in the whole result set is used inside the batch.
ResultOffsetGlobal(discord_page) == discord_page * discord_page_size

\* A slip: the batch's first record is placed with the display page size.
ResultOffsetUnaligned(discord_page) ==
    discord_page * discord_page_size - RequestPage(discord_page) * discord_page_size

\* result_offset = discord_offset - request_offset
ResultOffset(discord_page) ==
    LET request_offset == RequestPage(discord_page) * request_page_size
        discord_offset == discord_page * discord_page_size
    IN discord_offset - request_offset


(***************************************************************************)
(* SpecPage: _search_from_cache's page arithmetic, applied to one display  *)
(* page after the other.                                                   *)
(***************************************************************************)
PageInit == pm = [discord_page |-> 0, request_page |-> -1, result_offset |-> -1,
                  pc |-> "input"]

\* lines 271 and 323-325, for the display page at hand
MapPage ==
    /\ pm.pc = "input"
    /\ pm' = [pm EXCEPT !.request_page = RequestPage(pm.discord_page),
                        !.result_offset = ResultOffset(pm.discord_page),
                        !.pc = "mapped"]

\* the caller moves on to another display page
PickPage ==
    /\ pm.pc = "mapped"
    /\ \E p \in 0..MaxPage :
          pm' = [discord_page |-> p, request_page |-> -1, result_offset |-> -1,
                 pc |-> "input"]

(***************************************************************************)
(* SpecCache: a SearchCache and a caller that sets entries with explicit   *)
(* times and gets them.  The stored SearchCacheItems are values here: the  *)
(* caller builds a new dict for every set and writes to none afterwards.   *)
(***************************************************************************)
EmptyHeap == [o \in {} |-> 0]

\* The keys of c, and the entry stored under a key.
KeysOf(c) == {c[i].key : i \in 1..Len(c)}
EntryOf(c, k) == Lookup(c, k)[1]

NoCall == [op |-> "new", key |-> 0, time |-> 0, evicted |-> 0, hit |-> FALSE,
           full |-> FALSE]

\* What a set call did, for the history variable.
SetRecord(c, cap, after, k, t) ==
    LET gone == (KeysOf(c) \cup {k}) \ KeysOf(after)
    IN [op |-> "set", key |-> k, time |-> t,
        evicted |-> IF gone = {} THEN 0 ELSE CHOOSE g \in gone : TRUE,
        hit |-> HasKey(c, k),
        full |-> Len(c) >= cap]

CacheInit ==
    /\ capacity \in 0..MaxCap
    /\ cache = <<>>
    /\ ret = None
    /\ last = NoCall

\* cache.set(k, {...}, t) with a dict built for the call; the dict's cur_page
\* is t, so that an overwrite is seen in the element as well.
CacheSetCall(k, t) ==
    LET after == SearchCacheSet(cache, capacity, k,
                                SearchCacheItem(k, 0, t, None, 0), t)
    IN /\ cache' = after
       /\ last' = SetRecord(cache, capacity, after, k, t)
       /\ UNCHANGED <<capacity, ret, heap>>

\* item = cache.get(k)
CacheGetCall(k) ==
    LET r == SearchCacheGet(cache, heap, k)
    IN /\ cache' = r.cache
       /\ ret' = r.result
       /\ last' = [NoCall EXCEPT !.op = "get", !.key = k, !.hit = HasKey(cache, k)]
       /\ UNCHANGED <<capacity, heap>>

(***************************************************************************)
(* SpecAlias: the stored dicts as objects of a heap.  set stores the       *)
(* caller's dict (a reference), get returns item["element"].  Objects no   *)
(* longer referenced are collected.  Every set carries the same time, the  *)
(* default argument's.                                                     *)
(***************************************************************************)
\* The objects still referenced from the cache c or the caller's variable r.
Reachable(c, r) == {c[i].element : i \in 1..Len(c)} \cup {r[i] : i \in 1..Len(r)}

Collect(hp, c, r) == [o \in (DOMAIN hp) \cap Reachable(c, r) |-> hp[o]]

\* The stored items of c by key, read through the heap.
Stored(c, hp) == [k \in KeysOf(c) |-> hp[EntryOf(c, k).element]]

AliasInit ==
    /\ capacity \in 0..MaxAliasCap
    /\ cache = <<>>
    /\ heap = EmptyHeap
    /\ ret = None
    /\ last = NoCall

\* cache.set(k, {...}) with a dict built for the call
AliasSetCall(k) ==
    LET o == FreshObj(heap, Cardinality(DOMAIN heap))
        hp == [x \in DOMAIN heap \cup {o} |->
                  IF x = o THEN SearchCacheItem(k, 0, 0, None, 0) ELSE heap[x]]
        after == SearchCacheSet(cache, capacity, k, o, 0)
    IN /\ cache' = after
       /\ heap' = Collect(hp, after, ret)
       /\ last' = SetRecord(cache, capacity, after, k, 0)
       /\ UNCHANGED <<capacity, ret>>

\* item = cache.get(k)
AliasGetCall(k) ==
    LET r == SearchCacheGet(cache, heap, k)
    IN /\ cache' = r.cache
       /\ ret' = r.result
       /\ heap' = Collect(r.heap, r.cache, r.result)
       /\ last' = [NoCall EXCEPT !.op = "get", !.key = k, !.hit = HasKey(cache, k)]
       /\ UNCHANGED capacity

\* item["cur_page"] = p, on the dict the last get returned
MutateReturned(p) ==
    /\ ret # None
    /\ heap[ret[1]].cur_page # p
    /\ heap' = [heap EXCEPT ![ret[1]].cur_page = p]
    /\ last' = [NoCall EXCEPT !.op = "mutate", !.key = last.key,
                              !.hit = HasKey(cache, last.key),
                              !.time = heap[ret[1]].cur_page]
    /\ UNCHANGED <<capacity, cache, ret>>

(***************************************************************************)
(* The Search cog.                                                         *)
(***************************************************************************)
Users == {1, 2}             \* Discord users
Counts == {0, 3, 12, 27}    \* totals the provider may report

first_page_emoji == "first"
previous_page_emoji == "previous"
next_page_emoji == "next"
last_page_emoji == "last"
other_emoji == "other"      \* any emoji that is no control
Emojis == {first_page_emoji, previous_page_emoji, next_page_emoji,
           last_page_emoji, other_emoji}

\* The time the module is imported at.
ImportTime == 0

\* set's default argument, time = datetime.now(tz=pytz.utc): Python evaluates
\* a default once, when the def statement runs, not at each call.
DefaultSetTime(clock) == ImportTime

Min(a, b) == IF a <= b THEN a ELSE b
Max(a, b) == IF a >= b THEN a ELSE b

\* math.ceil(a / b) for a >= 0, b > 0
CeilDiv(a, b) == (a + b - 1) \div b

\* A slip: the slice runs to the end of the batch.
SliceToEnd(s, a, b) == SubSeq(s, a + 1, Len(s))

\* s[a:b] of a Python list, 0 <= a <= b
Slice(s, a, b) == SubSeq(s, a + 1, Min(b, Len(s)))

\* The provider's answer to a request.  Records are named by their position
\* in the upstream ordering; "page" echoes the requested page (the response's
\* next/previous links), which the handlers do not read.  json is what
\* response.json() gives: None for a body that is no JSON (json() raises), as
\* the error page of a failing server is.  The 404 stands for a failure that
\* is reported with a JSON payload.
PageOf(count, page, page_size) ==
    LET lo == (page - 1) * page_size
        n == Max(0, Min(page_size, count - lo))
    IN [i \in 1..n |-> lo + i]

\* The JSON payload of a failure.  The handlers do not read it; it is given
\* the fields of a batch so that payloads can be compared.
ErrorPayload == [count |-> 0, results |-> <<>>, page |-> 0]

Responses(data, counts) ==
    {[status_code |-> 500, json |-> None],
     [status_code |-> 404, json |-> Some(ErrorPayload)]}
    \cup
    {[status_code |-> 200,
      json |-> Some([count |-> c,
                     results |-> PageOf(c, data.page, data.page_size),
                     page |-> data.page])] : c \in counts}

\* A slip: the 0-based request page sent as it is.
RequestParamsZeroBased(cache_item, request_page) ==
    [query |-> cache_item.query, page_size |-> request_page_size,
     page |-> request_page]

\* data = {...}, lines 275-284
RequestParams(cache_item, request_page) ==
    [query |-> cache_item.query, page_size |-> request_page_size,
     page |-> request_page + 1]

\* A slip: the cached batch is reused whatever page is asked for.
NeedsRequestOnlyWhenEmpty(cache_item, request_page) ==
    cache_item.response_data = None

\* A slip: every navigation asks the provider.
NeedsRequestAlways(cache_item, request_page) == TRUE

\* line 273: not cache_item["response_data"] or request_page != cache_item["request_page"]
NeedsRequest(cache_item, request_page) ==
    \/ cache_item.response_data = None
    \/ request_page # cache_item.request_page

\* A slip: an empty result is rendered like any other.
NoResultsNever(response_data) == FALSE

\* line 292: response_data["count"] == 0
NoResults(response_data) == response_data.count = 0

\* A slip: every rendered result is cached.
CanChangePagesAlways(response_data) == TRUE

\* line 304: "Only cache the result if the user can change pages"
CanChangePages(response_data) == response_data.count > discord_page_size

\* A slip: anyone may turn the pages.
IsRequesterAnyone(cache_item, u) == TRUE

\* line 447: cache_item["discord_user_id"] != user.id
IsRequester(cache_item, u) == cache_item.discord_user_id = u

\* lines 453-456
LastPage(cache_item) ==
    IF cache_item.response_data # None
    THEN CeilDiv(cache_item.response_data[1].count, discord_page_size) - 1
    ELSE 0

\* A slip: next is let through on the last page.
PageModNoUpperCheck(cache_item, emoji) ==
    LET discord_page == cache_item.cur_page
        last_page == LastPage(cache_item)
    IN IF emoji = first_page_emoji /\ discord_page > 0 THEN Some(-cache_item.cur_page)
       ELSE IF emoji = previous_page_emoji /\ discord_page > 0 THEN Some(-1)
       ELSE IF emoji = next_page_emoji THEN Some(1)
       ELSE IF emoji = last_page_emoji /\ discord_page < last_page
            THEN Some(last_page - discord_page)
       ELSE None

\* lines 458-469: the page_mod of a reaction, None for "return"
PageMod(cache_item, emoji) ==
    LET discord_page == cache_item.cur_page
        last_page == LastPage(cache_item)
    IN IF emoji = first_page_emoji /\ discord_page > 0 THEN Some(-cache_item.cur_page)
       ELSE IF emoji = previous_page_emoji /\ discord_page > 0 THEN Some(-1)
       ELSE IF emoji = next_page_emoji /\ discord_page < last_page THEN Some(1)
       ELSE IF emoji = last_page_emoji /\ discord_page < last_page
            THEN Some(last_page - discord_page)
       ELSE None

\* A slip: all four controls on every page.
EmojiControlsAll(discord_page, total_discord_pages) ==
    {first_page_emoji, previous_page_emoji, next_page_emoji, last_page_emoji}

\* lines 355-363
EmojiControls(discord_page, total_discord_pages) ==
    (IF discord_page > 0 THEN {first_page_emoji, previous_page_emoji} ELSE {})
    \cup (IF discord_page < total_discord_pages - 1
          THEN {next_page_emoji, last_page_emoji} ELSE {})

NoItem == SearchCacheItem(0, 0, 0, None, 0)

\* Message ids, and the query (text and filters) of the /search command that
\* message m answers: every command is given a query of its own.
MsgIds == Max(Max(Max(MaxMsgs, MaxClockMsgs), Max(ShowMsgs, SessionMsgs)),
              Max(RaceMsgs, SameMsgs))
QueryOf(m) == m

IdleHandler ==
    [pc |-> "idle", kind |-> "none", msg |-> 0, cache_item |-> NoItem,
     page_mod |-> 0, discord_page |-> 0, response_data |-> None,
     pending |-> {}]

NoMessage == [kind |-> "none", cur_page |-> 0, total_pages |-> 0,
              total_results |-> 0, records |-> <<>>]

Step(step, kind, outcome, m, reqs) ==
    [step |-> step, kind |-> kind, outcome |-> outcome, msg |-> m, reqs |-> reqs,
     actor |-> 0, emoji |-> "none", resp |-> None, exc |-> None]

\* str(response.status_code)
StatusStr(status_code) ==
    IF status_code = 200 THEN "200"
    ELSE IF status_code = 404 THEN "404"
    ELSE "500"

\* BlossomException(response), helpers.py lines 70-78: the exception that
\* leaves the raise statement.  The constructor calls response.json(), which
\* raises in its turn when the body is no JSON.
BlossomException(response) ==
    IF response.json = None
    THEN [type |-> "JSONDecodeError", status |-> "", data |-> None]
    ELSE [type |-> "BlossomException",
          status |-> StatusStr(response.status_code),
          data |-> response.json]

\* A reaction event taken up: the user who reacted is recorded with it, and
\* the emoji once the handler has read it (line 451).
ReactionStep(outcome, m, u, emoji) ==
    [Step("reaction", "nav", outcome, m, <<>>) EXCEPT !.actor = u, !.emoji = emoji]

BotInit ==
    /\ now = ImportTime
    /\ sent = 0
    /\ shown = [m \in 1..MsgIds |-> NoMessage]
    /\ controls = [m \in 1..MsgIds |-> {}]
    /\ hs = [h \in 1..2 |-> IdleHandler]
    /\ ev = Step("init", "none", "done", 0, <<>>)
    /\ written = [m \in 1..MsgIds |-> [at |-> -1, by |-> "none"]]

\* Time passes.
Tick ==
    /\ now < ImportTime + MaxClock
    /\ now' = now + 1
    /\ ev' = Step("tick", "none", "done", 0, <<>>)
    /\ UNCHANGED <<capacity, cache, last, sent, shown, controls, hs, written>>

\* A slip: every session is stored under the same key.
MsgIdShared(m) == 1

\* msg.id, the key of the message's session
MsgId(m) == m

\* A slip: the handler reads the entry again when it resumes.
HeldItemReread(h) ==
    IF HasKey(cache, hs[h].msg) THEN EntryOf(cache, hs[h].msg).element
    ELSE hs[h].cache_item

\* cache_item, the local variable a handler holds across its awaits: the
\* dict its cache.get returned when the reaction arrived.
HeldItem(h) == hs[h].cache_item

\* The handler slot an arriving event is run in: the lowest idle one.
Free(h) == hs[h].pc = "idle" /\ \A g \in 1..(h - 1) : hs[g].pc # "idle"

\* _search_from_cache from line 260 to its await of msg.edit: the page
\* arithmetic, the provider request (a blocking call) and the cache update.
\* counts are the totals the provider may report.  With track the handler
\* goes on to edit the message and add the controls; without, the model
\* leaves the display out (no handler reads it) and the handler is done.
SearchFromCache(h, m, cache_item, page_mod, kind, counts, track) ==
    LET discord_page == cache_item.cur_page + page_mod
        request_page == RequestPage(discord_page)
        fetch == NeedsRequest(cache_item, request_page)
        data == RequestParams(cache_item, request_page)
        reqs == IF fetch THEN <<data>> ELSE <<>>
    IN \E response \in (IF fetch THEN Responses(data, counts)
                        ELSE {[status_code |-> 200, json |-> cache_item.response_data]}) :
          IF response.status_code # 200
          THEN \* raise BlossomException(response)
               /\ hs' = [hs EXCEPT ![h] = IdleHandler]
               /\ ev' = [Step("orchestrate", kind, "raised", m, reqs) EXCEPT
                            !.resp = Some(response),
                            !.exc = Some(BlossomException(response))]
               /\ UNCHANGED <<cache, last, written>>
          ELSE LET response_data == response.json[1]
                   running == [pc |-> "edit", kind |-> kind, msg |-> m,
                               cache_item |-> cache_item, page_mod |-> page_mod,
                               discord_page |-> discord_page,
                               response_data |-> Some(response_data),
                               pending |-> {}]
               IN IF NoResults(response_data)
                  THEN /\ hs' = [hs EXCEPT ![h] = IF track
                                                    THEN [running EXCEPT !.pc = "edit0"]
                                                    ELSE IdleHandler]
                       /\ ev' = Step("orchestrate", kind, "empty", m, reqs)
                       /\ UNCHANGED <<cache, last, written>>
                  ELSE /\ hs' = [hs EXCEPT ![h] = IF track THEN running ELSE IdleHandler]
                       /\ ev' = Step("orchestrate", kind, "rendering", m, reqs)
                       /\ IF CanChangePages(response_data)
                          THEN LET after ==
                                     SearchCacheSet(
                                         cache, capacity, MsgId(m),
                                         SearchCacheItem(cache_item.query,
                                                         cache_item.discord_user_id,
                                                         discord_page,
                                                         Some(response_data),
                                                         request_page),
                                         DefaultSetTime(now))
                               IN /\ cache' = after
                                  /\ last' = SetRecord(cache, capacity, after, m,
                                                       DefaultSetTime(now))
                                  /\ written' = [written EXCEPT
                                                    ![m] = [at |-> now, by |-> kind]]
                          ELSE UNCHANGED <<cache, last, written>>

\* The /search command (lines 399-435).  ctx.send creates the message; get_user
\* either resolves the user or raises; then the first page is displayed.
\* clear_reactions does not await on a message without reactions.
SearchCommand(h, u, q, found, counts, track, max_msgs) ==
    /\ Free(h)
    /\ sent < max_msgs
    /\ sent' = sent + 1
    /\ shown' = IF track
                THEN [shown EXCEPT ![sent + 1] = [NoMessage EXCEPT !.kind = "getting"]]
                ELSE shown
    /\ IF found
       THEN SearchFromCache(h, sent + 1, SearchCacheItem(q, u, 0, None, 0), 0,
                            "search", counts, track)
       ELSE /\ ev' = Step("search", "search", "user_not_found", sent + 1, <<>>)
            /\ UNCHANGED <<cache, last, written, hs>>
    /\ UNCHANGED <<capacity, now, controls>>

\* on_reaction_add (lines 437-472) up to the await in clear_reactions.
OnReactionAdd(h, m, emoji, u) ==
    /\ Free(h)
    /\ m \in 1..sent
    /\ LET got == SearchCacheGet(cache, EmptyHeap, MsgId(m))
           cache_item == got.result
       IN /\ cache' = got.cache
          /\ IF cache_item = None
             THEN /\ ev' = ReactionStep("absent", m, u, "none")
                  /\ UNCHANGED hs
             ELSE IF ~IsRequester(cache_item[1], u)
             THEN /\ ev' = ReactionStep("foreign", m, u, "none")
                  /\ UNCHANGED hs
             ELSE IF PageMod(cache_item[1], emoji) = None
             THEN /\ ev' = ReactionStep("noop", m, u, emoji)
                  /\ UNCHANGED hs
             ELSE /\ ev' = ReactionStep("accepted", m, u, emoji)
                  /\ hs' = [hs EXCEPT ![h] =
                               [IdleHandler EXCEPT
                                   !.pc = "clear", !.kind = "nav", !.msg = m,
                                   !.cache_item = cache_item[1],
                                   !.page_mod = PageMod(cache_item[1], emoji)[1]]]
    /\ UNCHANGED <<capacity, last, now, sent, shown, controls, written>>

\* msg.clear_reactions() returns; the handler runs on to its await of msg.edit.
ClearDone(h, counts, track) ==
    /\ hs[h].pc = "clear"
    /\ controls' = IF track THEN [controls EXCEPT ![hs[h].msg] = {}] ELSE controls
    /\ SearchFromCache(h, hs[h].msg, HeldItem(h), hs[h].page_mod, "nav",
                       counts, track)
    /\ UNCHANGED <<capacity, now, sent, shown>>

\* msg.edit of the no-results text returns, and the handler with it.
EditNoResultsDone(h) ==
    /\ hs[h].pc = "edit0"
    /\ shown' = [shown EXCEPT ![hs[h].msg] = [NoMessage EXCEPT !.kind = "no_results"]]
    /\ hs' = [hs EXCEPT ![h] = IdleHandler]
    /\ ev' = Step("edit", hs[h].kind, "no_results", hs[h].msg, <<>>)
    /\ UNCHANGED <<capacity, cache, last, now, sent, controls, written>>

\* msg.edit of the page returns (lines 321-353); the controls are chosen and
\* their add_reaction calls gathered (lines 355-366).
EditDone(h) ==
    /\ hs[h].pc = "edit"
    /\ LET m == hs[h].msg
           discord_page == hs[h].discord_page
           response_data == hs[h].response_data[1]
           discord_offset == discord_page * discord_page_size
           result_offset == ResultOffset(discord_page)
           page_results == Slice(response_data.results, result_offset,
                                 result_offset + discord_page_size)
           total_discord_pages == CeilDiv(response_data.count, discord_page_size)
           emoji_controls == EmojiControls(discord_page, total_discord_pages)
       IN /\ shown' = [shown EXCEPT ![m] =
                          [kind |-> "page", cur_page |-> discord_page + 1,
                           total_pages |-> total_discord_pages,
                           total_results |-> response_data.count,
                           records |-> [i \in 1..Len(page_results) |->
                                           [num |-> discord_offset + i,
                                            res |-> page_results[i]]]]]
          /\ hs' = [hs EXCEPT ![h] =
                       IF emoji_controls = {} THEN IdleHandler
                       ELSE [@ EXCEPT !.pc = "react", !.pending = emoji_controls]]
          /\ ev' = Step("edit", hs[h].kind, "page", m, <<>>)
    /\ UNCHANGED <<capacity, cache, last, now, sent, controls, written>>

\* The gathered add_reaction calls return, and the handler with them.
ReactionsAdded(h) ==
    /\ hs[h].pc = "react"
    /\ controls' = [controls EXCEPT ![hs[h].msg] = @ \cup hs[h].pending]
    /\ hs' = [hs EXCEPT ![h] = IdleHandler]
    /\ ev' = Step("react", hs[h].kind, "done", hs[h].msg, <<>>)
    /\ UNCHANGED <<capacity, cache, last, now, sent, shown, written>>

(***************************************************************************)
(* The highlighter: format_query_occurrence and create_result_description. *)
(* A str is the sequence of its characters.  The characters of the model:  *)
(* lower and upper case letters, "sz" for the sharp s (its casefold is     *)
(* "ss", two characters), the line feed, and what the functions add.       *)
(***************************************************************************)
max_characters == 56
max_occurrences == 4

\* s[i:j] of a str, for any integers i and j
PyIndex(n, i) == IF i < 0 THEN Max(n + i, 0) ELSE Min(i, n)
PySlice(s, i, j) == SubSeq(s, PyIndex(Len(s), i) + 1, PyIndex(Len(s), j))

\* c * n
Rep(c, n) == [i \in 1..n |-> c]

\* str(n), n >= 0
DigitChars == <<"0", "1", "2", "3", "4", "5", "6", "7", "8", "9">>

RECURSIVE Str(_)
Str(n) ==
    IF n < 10 THEN <<DigitChars[n + 1]>>
    ELSE Str(n \div 10) \o <<DigitChars[(n % 10) + 1]>>

\* str.casefold()
CasefoldChar(ch) ==
    CASE ch = "A" -> <<"a">>
      [] ch = "B" -> <<"b">>
      [] ch = "S" -> <<"s">>
      [] ch = "sz" -> <<"s", "s">>
      [] OTHER -> <<ch>>

RECURSIVE Casefold(_)
Casefold(s) ==
    IF s = <<>> THEN <<>>
    ELSE Casefold(SubSeq(s, 1, Len(s) - 1)) \o CasefoldChar(s[Len(s)])

\* s.find(sub, start): the lowest index from start on where sub begins, or -1
Find(s, sub, start) ==
    LET hits == {i \in start..(Len(s) - Len(sub)) : SubSeq(s, i + 1, i + Len(sub)) = sub}
    IN IF hits = {} THEN -1 ELSE CHOOSE i \in hits : \A j \in hits : i <= j

\* s.count(sub): the occurrences of sub that do not overlap, from the left
RECURSIVE CountFrom(_, _, _)
CountFrom(s, sub, start) ==
    LET pos == Find(s, sub, start)
    IN IF pos < 0 THEN 0 ELSE 1 + CountFrom(s, sub, pos + Len(sub))

Count(s, sub) == CountFrom(s, sub, 0)

\* s.splitlines(), for the line feed
RECURSIVE SplitLines(_)
SplitLines(s) ==
    IF s = <<>> THEN <<>>
    ELSE LET nl == Find(s, <<"\n">>, 0)
         IN IF nl < 0 THEN <<s>>
            ELSE <<SubSeq(s, 1, nl)>> \o SplitLines(SubSeq(s, nl + 2, Len(s)))

\* A slip: the label is left out of the underline's offset.
OffsetNoLabel(line_num_str, left_context) == Len(left_context)

\* offset = len(line_num_str) + len(left_context)
Offset(line_num_str, left_context) == Len(line_num_str) + Len(left_context)

\* "L" + str(line_num) + ": "
LineNumStr(line_num) == <<"L">> \o Str(line_num) \o <<":", " ">>

Ellipsis == <<".", ".", ".">>

\* format_query_occurrence (lines 65-103)
FormatQueryOccurrence(line, line_num, pos, query) ==
    LET line_num_str == LineNumStr(line_num)
        remaining_chars == max_characters - Len(query) - Len(line_num_str)
        left == PySlice(line, 0, pos)
        right == PySlice(line, pos + Len(query), Len(line))
        half_up == CeilDiv(remaining_chars, 2)
        half_down == remaining_chars \div 2
        right_chars == IF Len(left) < half_up
                       THEN half_down + (half_up - Len(left))
                       ELSE half_down
        left_chars == IF Len(left) >= half_up /\ Len(right) < half_down
                      THEN half_up + (half_down - Len(right))
                      ELSE half_up
        left_context == IF Len(left) > left_chars
                        THEN Ellipsis \o PySlice(left, 3 - left_chars, Len(left))
                        ELSE left
        right_context == IF Len(right) > right_chars
                         THEN PySlice(right, 0, right_chars - 3) \o Ellipsis
                         ELSE right
        offset == Offset(line_num_str, left_context)
        occurrence == PySlice(line, pos, pos + Len(query))
        context == line_num_str \o left_context \o occurrence \o right_context
                   \o <<"\n">>
        underline == Rep(" ", offset) \o Rep("-", Len(query)) \o <<"\n">>
    IN context \o underline

\* The while loop of create_result_description (lines 133-139) on line i of
\* the text, entered with the position of the first match.  added holds what
\* was added to the description so far, each addition with the arguments of
\* its format_query_occurrence call; cur_count is its length.
RECURSIVE WhileOccurrences(_, _, _, _, _)
WhileOccurrences(line, i, query, pos, added) ==
    IF pos >= 0 /\ Len(added) < max_occurrences
    THEN WhileOccurrences(
             line, i, query,
             Find(Casefold(line), Casefold(query), pos + Len(query)),
             Append(added, [line_num |-> i + 1, pos |-> pos,
                            text |-> FormatQueryOccurrence(line, i + 1, pos, query)]))
    ELSE added

\* The for loop over the lines (lines 130-142), from line i on.
RECURSIVE ForLines(_, _, _, _)
ForLines(lines, i, query, added) ==
    IF i >= Len(lines) THEN added
    ELSE LET line == lines[i + 1]
             after == WhileOccurrences(line, i, query,
                                       Find(Casefold(line), Casefold(query), 0),
                                       added)
         IN IF Len(after) >= max_occurrences THEN after
            ELSE ForLines(lines, i + 1, query, after)

\* create_result_description (lines 106-152): the occurrences put into the
\* code block, and the count of the more_occurrences line when there is one.
\* The item line in front of the block (type, source, url, time) does not
\* depend on the occurrences and is left out.
CreateResultDescription(transcription, query) ==
    LET total_occurrences == Count(Casefold(transcription), Casefold(query))
        added == ForLines(SplitLines(transcription), 0, query, <<>>)
        cur_count == Len(added)
    IN [occurrences |-> added,
        more_occurrences |-> IF cur_count < total_occurrences
                             THEN Some(total_occurrences - cur_count)
                             ELSE None]

\* The lines format_query_occurrence is applied to in SpecHighlight: a left
\* context of a characters, the query in upper case, a right context of b.
LeftText(a) == [i \in 1..a |-> <<"x", "y", "z">>[(i % 3) + 1]]
RightText(b) == [i \in 1..b |-> <<"u", "v", "w">>[(i % 3) + 1]]
QueryText(q) == [i \in 1..q |-> <<"a", "b">>[(i % 2) + 1]]
MatchText(q) == [i \in 1..q |-> <<"A", "B">>[(i % 2) + 1]]

ContextLens == (0..MaxContext) \cup {LongContext}
LineNums == {1, MaxLineNum}

HighlightInit ==
    pm \in {[pc |-> "input",
             line |-> LeftText(a) \o MatchText(q) \o RightText(b),
             line_num |-> n, pos |-> a, query |-> QueryText(q),
             out |-> <<>>] :
               a \in ContextLens, b \in ContextLens, q \in 1..MaxQuery, n \in LineNums}

\* out = format_query_occurrence(line, line_num, pos, query)
FormatCall ==
    /\ pm.pc = "input"
    /\ pm' = [pm EXCEPT !.pc = "done",
                        !.out = FormatQueryOccurrence(pm.line, pm.line_num,
                                                      pm.pos, pm.query)]

\* The texts and queries create_result_description is applied to in
\* SpecDescribe.
TextChars == {"s", "S", "sz", "\n"}
Texts == UNION {[1..n -> TextChars] : n \in 0..MaxText}
Queries == {<<"s">>, <<"S">>, <<"sz">>, <<"s", "s">>}

DescribeInit ==
    pm \in {[pc |-> "input", text |-> t, query |-> q,
             out |-> [occurrences |-> <<>>, more_occurrences |-> None]] :
               t \in Texts, q \in Queries}

\* out = create_result_description({"text": text, ...}, num, query)
DescribeCall ==
    /\ pm.pc = "input"
    /\ pm' = [pm EXCEPT !.pc = "done",
                        !.out = CreateResultDescription(pm.text, pm.query)]

(***************************************************************************)
(* The specifications.                                                     *)
(***************************************************************************)
cacheVars == <<capacity, cache, heap, ret, last>>
botVars == <<now, sent, shown, controls, hs, ev, written>>
vars == <<capacity, cache, heap, ret, last, pm, now, sent, shown, controls, hs,
          ev, written>>

SpecPageInit ==
    /\ PageInit /\ BotInit
    /\ capacity = 0 /\ cache = <<>> /\ heap = EmptyHeap /\ ret = None
    /\ last = NoCall

SpecPageNext ==
    \/ MapPage /\ UNCHANGED cacheVars /\ UNCHANGED botVars
    \/ PickPage /\ UNCHANGED cacheVars /\ UNCHANGED botVars

SpecPage == SpecPageInit /\ [][SpecPageNext]_vars

SpecCacheInit == CacheInit /\ heap = EmptyHeap /\ PageInit /\ BotInit

SpecCacheNext ==
    \/ \E k \in Keys, t \in Times : CacheSetCall(k, t) /\ UNCHANGED <<pm, botVars>>
    \/ \E k \in Keys : CacheGetCall(k) /\ UNCHANGED <<pm, botVars>>

SpecCache == SpecCacheInit /\ [][SpecCacheNext]_vars

SpecAliasInit == AliasInit /\ PageInit /\ BotInit

SpecAliasNext ==
    \/ \E k \in 1..MaxAliasKey : AliasSetCall(k) /\ UNCHANGED <<pm, botVars>>
    \/ \E k \in 1..MaxAliasKey : AliasGetCall(k) /\ UNCHANGED <<pm, botVars>>
    \/ \E p \in 0..1 : MutateReturned(p) /\ UNCHANGED <<pm, botVars>>

SpecAlias == SpecAliasInit /\ [][SpecAliasNext]_vars

\* The cog after Search.__init__, at import time.
Init ==
    /\ capacity = CogCapacity
    /\ cache = <<>>
    /\ heap = EmptyHeap /\ ret = None
    /\ last = NoCall
    /\ PageInit
    /\ BotInit

\* The cog with its sessions: commands and reactions arrive in any order and
\* are handled one after the other; the display is left out.
Next ==
    \/ \E u \in Users, found \in BOOLEAN :
          SearchCommand(1, u, QueryOf(sent + 1), found, Counts, FALSE, MaxMsgs)
              /\ UNCHANGED <<heap, ret, pm>>
    \/ \E m \in 1..MaxMsgs, e \in Emojis, u \in Users :
          OnReactionAdd(1, m, e, u) /\ UNCHANGED <<heap, ret, pm>>
    \/ ClearDone(1, Counts, FALSE) /\ UNCHANGED <<heap, ret, pm>>

Spec == Init /\ [][Next]_vars

\* The same cog with the clock running, for what depends on the time of a
\* write: one requester, and a provider that reports 12 or 27 records.
ClockInit ==
    /\ capacity = ClockCapacity
    /\ cache = <<>>
    /\ heap = EmptyHeap /\ ret = None
    /\ last = NoCall
    /\ PageInit
    /\ BotInit

ClockNext ==
    \/ Tick /\ UNCHANGED <<heap, ret, pm>>
    \/ SearchCommand(1, 1, QueryOf(sent + 1), TRUE, {12, 27}, FALSE, MaxClockMsgs)
          /\ UNCHANGED <<heap, ret, pm>>
    \/ \E m \in 1..MaxClockMsgs, e \in Emojis :
          OnReactionAdd(1, m, e, 1) /\ UNCHANGED <<heap, ret, pm>>
    \/ ClearDone(1, {12, 27}, FALSE) /\ UNCHANGED <<heap, ret, pm>>

SpecClock == ClockInit /\ [][ClockNext]_vars

\* One session with its display: the message is edited and the controls are
\* added at the handler's later await points.  User 1 searches; any user reacts.
ShowInit ==
    /\ capacity = ShowCapacity
    /\ cache = <<>>
    /\ heap = EmptyHeap /\ ret = None
    /\ last = NoCall
    /\ PageInit
    /\ BotInit

ShowNext ==
    \/ \E found \in BOOLEAN :
          SearchCommand(1, 1, QueryOf(sent + 1), found, Counts, TRUE, ShowMsgs)
              /\ UNCHANGED <<heap, ret, pm>>
    \/ \E m \in 1..ShowMsgs, e \in Emojis, u \in Users :
          OnReactionAdd(1, m, e, u) /\ UNCHANGED <<heap, ret, pm>>
    \/ ClearDone(1, Counts, TRUE) /\ UNCHANGED <<heap, ret, pm>>
    \/ EditNoResultsDone(1) /\ UNCHANGED <<heap, ret, pm>>
    \/ EditDone(1) /\ UNCHANGED <<heap, ret, pm>>
    \/ ReactionsAdded(1) /\ UNCHANGED <<heap, ret, pm>>

SpecShow == ShowInit /\ [][ShowNext]_vars

\* Several sessions with their displays and a cache they exceed; the provider
\* reports no, one page or three pages of records (one batch at most).
SessionCounts == {0, 3, 12}

SessionsInit ==
    /\ capacity = SessionCapacity
    /\ cache = <<>>
    /\ heap = EmptyHeap /\ ret = None
    /\ last = NoCall
    /\ PageInit
    /\ BotInit

SessionsNext ==
    \/ \E u \in Users, found \in BOOLEAN :
          SearchCommand(1, u, QueryOf(sent + 1), found, SessionCounts, TRUE,
                        SessionMsgs)
              /\ UNCHANGED <<heap, ret, pm>>
    \/ \E m \in 1..SessionMsgs, e \in Emojis, u \in Users :
          OnReactionAdd(1, m, e, u) /\ UNCHANGED <<heap, ret, pm>>
    \/ ClearDone(1, SessionCounts, TRUE) /\ UNCHANGED <<heap, ret, pm>>
    \/ EditNoResultsDone(1) /\ UNCHANGED <<heap, ret, pm>>
    \/ EditDone(1) /\ UNCHANGED <<heap, ret, pm>>
    \/ ReactionsAdded(1) /\ UNCHANGED <<heap, ret, pm>>

SpecSessions == SessionsInit /\ [][SessionsNext]_vars

\* Two handlers at a time and several sessions, the display left out: a
\* handler's later awaits (msg.edit, add_reaction) touch no session.  The
\* two users search in turn and any user reacts, with Next or Previous; the
\* provider reports three pages of records.
RaceCounts == {12}
RaceUser(m) == ((m - 1) % 2) + 1
RaceEmojis == {next_page_emoji, previous_page_emoji}

RaceInit ==
    /\ capacity = RaceCapacity
    /\ cache = <<>>
    /\ heap = EmptyHeap /\ ret = None
    /\ last = NoCall
    /\ PageInit
    /\ BotInit

RaceNext ==
    \/ \E h \in DOMAIN hs :
          SearchCommand(h, RaceUser(sent + 1), QueryOf(sent + 1), TRUE, RaceCounts,
                        FALSE, RaceMsgs)
              /\ UNCHANGED <<heap, ret, pm>>
    \/ \E h \in DOMAIN hs, m \in 1..RaceMsgs, e \in RaceEmojis, u \in Users :
          OnReactionAdd(h, m, e, u) /\ UNCHANGED <<heap, ret, pm>>
    \/ \E h \in DOMAIN hs :
          ClearDone(h, RaceCounts, FALSE) /\ UNCHANGED <<heap, ret, pm>>

SpecRace == RaceInit /\ [][RaceNext]_vars

\* Two handlers at a time on one session with its display: user 1 searches
\* and reacts, and a reaction is taken up while the handler of the one before
\* is at an await.  The provider reports no records or three pages of them.
SameCounts == {0, 12}

SameInit ==
    /\ capacity = SameCapacity
    /\ cache = <<>>
    /\ heap = EmptyHeap /\ ret = None
    /\ last = NoCall
    /\ PageInit
    /\ BotInit

SameNext ==
    \/ \E h \in DOMAIN hs :
          SearchCommand(h, 1, QueryOf(sent + 1), TRUE, SameCounts, TRUE, SameMsgs)
              /\ UNCHANGED <<heap, ret, pm>>
    \/ \E h \in DOMAIN hs, m \in 1..SameMsgs, e \in Emojis :
          OnReactionAdd(h, m, e, 1) /\ UNCHANGED <<heap, ret, pm>>
    \/ \E h \in DOMAIN hs : ClearDone(h, SameCounts, TRUE) /\ UNCHANGED <<heap, ret, pm>>
    \/ \E h \in DOMAIN hs : EditNoResultsDone(h) /\ UNCHANGED <<heap, ret, pm>>
    \/ \E h \in DOMAIN hs : EditDone(h) /\ UNCHANGED <<heap, ret, pm>>
    \/ \E h \in DOMAIN hs : ReactionsAdded(h) /\ UNCHANGED <<heap, ret, pm>>

SpecSame == SameInit /\ [][SameNext]_vars

\* SpecShow's session with the event loop at work: a handler that waits for
\* a Discord call to return is resumed when it returns, so each of its steps
\* is taken once it stays enabled.  Nothing makes users search or react.
ShowResume ==
    \/ ClearDone(1, Counts, TRUE) /\ UNCHANGED <<heap, ret, pm>>
    \/ EditNoResultsDone(1) /\ UNCHANGED <<heap, ret, pm>>
    \/ EditDone(1) /\ UNCHANGED <<heap, ret, pm>>
    \/ ReactionsAdded(1) /\ UNCHANGED <<heap, ret, pm>>

SpecLive == ShowInit /\ [][ShowNext]_vars /\ WF_vars(ShowResume)

\* format_query_occurrence, call by call.
SpecHighlightInit ==
    /\ HighlightInit /\ BotInit
    /\ capacity = 0 /\ cache = <<>> /\ heap = EmptyHeap /\ ret = None
    /\ last = NoCall

SpecHighlightNext == FormatCall /\ UNCHANGED cacheVars /\ UNCHANGED botVars

SpecHighlight == SpecHighlightInit /\ [][SpecHighlightNext]_vars

\* create_result_description, call by call.
SpecDescribeInit ==
    /\ DescribeInit /\ BotInit
    /\ capacity = 0 /\ cache = <<>> /\ heap = EmptyHeap /\ ret = None
    /\ last = NoCall

SpecDescribeNext == DescribeCall /\ UNCHANGED cacheVars /\ UNCHANGED botVars

SpecDescribe == SpecDescribeInit /\ [][SpecDescribeNext]_vars

(***************************************************************************)
(* Properties of SearchCache (SpecCache, SpecAlias).                       *)
(***************************************************************************)
\* The (key, last_modified) pairs of a cache.
Stamps(c) == {<<c[i].key, c[i].last_modified>> : i \in 1..Len(c)}

\* C1: whatever set and get calls were made, the cache holds between 0 and
\* capacity entries (one per key), and capacity keeps its constructor value.
C1_SizeWithinCapacity ==
    /\ [](/\ 0 <= Len(cache)
          /\ Len(cache) <= capacity
          /\ Cardinality(KeysOf(cache)) = Len(cache))
    /\ [][capacity' = capacity]_vars

\* C1's case: a set on a full cache (capacity at least 1) has just evicted.
C1_Witness ==
    /\ last.op = "set" /\ last.evicted # 0
    /\ capacity >= 1 /\ Len(cache) = capacity

\* C2: when a set leaves more than capacity entries after its insertion,
\* exactly capacity entries remain and the one removed has a last_modified
\* that is minimal among the entries present after the insertion (the new one
\* included); so with distinct increasing times the first written key goes.
C2_EvictsOldest ==
    [][last'.op = "set" =>
        LET k == last'.key
            t == last'.time
            present == {s \in Stamps(cache) : s[1] # k} \cup {<<k, t>>}
        IN IF Cardinality(present) > capacity
           THEN /\ Len(cache') = capacity
                /\ \E x \in present :
                      /\ \A y \in present : x[2] <= y[2]
                      /\ Stamps(cache') = present \ {x}
           ELSE Stamps(cache') = present]_vars

\* C2's case: capacity + 1 distinct keys were written with increasing times
\* and the set of the last one evicted the first written key.
C2_Witness ==
    /\ capacity = 2 /\ Len(cache) = 2
    /\ last.op = "set" /\ ~last.hit
    /\ last.evicted \notin {0, last.key}
    /\ cache[1].last_modified < cache[2].last_modified
    /\ cache[2].key = last.key

\* C4: a get, hit or miss, leaves the cache as it was: the same keys in the
\* same order with the same elements and last_modified, hence the same
\* eviction by the next set.
C4_GetLeavesCache ==
    [][last'.op = "get" =>
        /\ cache' = cache
        /\ capacity' = capacity]_vars

\* C4's case: the oldest entry of a full cache has just been read.
C4_Witness ==
    /\ last.op = "get" /\ last.hit
    /\ capacity = 2 /\ Len(cache) = 2
    /\ \E i, j \in 1..2 :
          /\ cache[i].key = last.key
          /\ cache[i].last_modified < cache[j].last_modified

\* C5 as claimed: writing a field of the value a get returned changes nothing
\* the cache stores (get would return a copy).
C5_GetReturnsCopy ==
    [][last'.op = "mutate" => Stored(cache', heap') = Stored(cache, heap)]_vars

\* C5 as the code has it: a get that hits returns the stored dict itself and
\* changes nothing; a write to cur_page through the returned dict, while the
\* entry is stored, is the stored entry's new cur_page (what the next get of
\* that key returns).
C5_GetReturnsStoredObject ==
    [][/\ (last'.op = "get" /\ last'.hit =>
              /\ ret' = Some(EntryOf(cache, last'.key).element)
              /\ cache' = cache
              /\ Stored(cache', heap') = Stored(cache, heap))
       /\ (last'.op = "get" /\ ~last'.hit => ret' = None /\ cache' = cache)
       /\ (last'.op = "mutate" =>
              \A k \in KeysOf(cache) :
                 EntryOf(cache, k).element = ret[1] =>
                    /\ Stored(cache', heap')[k] = heap'[ret'[1]]
                    /\ Stored(cache', heap')[k].cur_page # heap[ret[1]].cur_page
                    /\ SearchCacheGet(cache', heap', k).result = ret')]_vars

\* C5's case: the caller wrote cur_page = 1 to a dict it got, and the entry
\* stored under that key now has cur_page 1.
C5_Witness ==
    /\ last.op = "mutate" /\ last.hit
    /\ HasKey(cache, last.key)
    /\ Stored(cache, heap)[last.key].cur_page = 1

(***************************************************************************)
(* Properties of the page arithmetic (SpecPage).                           *)
(***************************************************************************)
\* C8: with display pages of 5 and request batches of 25, a display page p
\* maps to the request batch q = floor(5 p / 25), the q with
\* 25 q <= 5 p < 25 (q + 1), and to the offset 5 p - 25 q in that batch;
\* page 7 maps to batch 1, offset 10.
C8_PageMapping ==
    pm.pc = "mapped" =>
        LET p == pm.discord_page
        IN /\ \E q \in 0..p :
                 /\ 25 * q <= 5 * p /\ 5 * p < 25 * (q + 1)
                 /\ pm.request_page = q
                 /\ pm.result_offset = 5 * p - 25 * q
           /\ (p = 7 => pm.request_page = 1 /\ pm.result_offset = 10)

\* C8's case: display page 7 has been mapped.
C8_Witness == pm.pc = "mapped" /\ pm.discord_page = 7

(***************************************************************************)
(* Properties of the Search cog (Spec, SpecClock).                         *)
(***************************************************************************)
\* floor(5 p / 25), by its defining inequalities
BatchOf(p) == CHOOSE q \in 0..p : 25 * q <= 5 * p /\ 5 * p < 25 * (q + 1)

\* The handler that has just run _search_from_cache from its await of
\* clear_reactions on: it was at "clear" and no longer is.
Resumed(h) == hs[h].pc = "clear" /\ hs'[h] # hs[h]

\* C3: a navigation that re-renders writes the session's entry with the time
\* of that navigation as last_modified, not older than the last_modified of
\* any other entry; and an eviction never removes a session whose last write
\* is later than the last write of a session that stays.
C3_FreshTimestampOnNavigation ==
    /\ \A i \in 1..Len(cache) :
          written[cache[i].key].by = "nav" =>
             /\ cache[i].last_modified = written[cache[i].key].at
             /\ \A j \in 1..Len(cache) :
                   written[cache[j].key].at <= written[cache[i].key].at =>
                      cache[j].last_modified <= cache[i].last_modified
    /\ (last.op = "set" /\ last.evicted # 0 =>
           \A k \in KeysOf(cache) : written[last.evicted].at <= written[k].at)

\* C6: every cache entry with a batch has 0 <= cur_page <= ceil(count / 5) - 1
\* for the count of its own batch.
C6_PageWithinRange ==
    \A i \in 1..Len(cache) :
       LET item == cache[i].element
       IN item.response_data # None =>
             /\ 0 <= item.cur_page
             /\ 5 * item.cur_page < item.response_data[1].count

\* C7: every cache entry has request_page = floor(cur_page * 5 / 25), and its
\* batch is the provider's response to the request for that page (sent as the
\* 1-indexed page request_page + 1).
C7_BatchMatchesPage ==
    \A i \in 1..Len(cache) :
       LET item == cache[i].element
       IN /\ item.request_page = BatchOf(item.cur_page)
          /\ item.response_data # None
          /\ item.response_data[1].page = item.request_page + 1
          /\ item.response_data[1].results
                = PageOf(item.response_data[1].count, item.request_page + 1, 25)

\* C7's case: a navigation crossed into the second batch and the entry holds it.
C7_Witness ==
    /\ ev.step = "orchestrate" /\ ev.kind = "nav"
    /\ HasKey(cache, ev.msg)
    /\ EntryOf(cache, ev.msg).element.request_page = 1
    /\ EntryOf(cache, ev.msg).element.cur_page = 5

\* C9: a navigation makes exactly one provider request when the target page
\* lies in another batch than the cached one (or the entry has no batch), and
\* none when the target page lies in the cached batch.
C9_FetchOnlyOnBatchChange ==
    [][\A h \in DOMAIN hs :
          Resumed(h) =>
             LET item == hs[h].cache_item
                 target == item.cur_page + hs[h].page_mod
             IN /\ ev'.step = "orchestrate" /\ ev'.kind = "nav"
                /\ Len(ev'.reqs) =
                      IF item.response_data = None \/ BatchOf(target) # item.request_page
                      THEN 1 ELSE 0]_vars

\* C9's case: a navigation into another batch has made its one request.
C9_Witness ==
    /\ ev.step = "orchestrate" /\ ev.kind = "nav" /\ ev.outcome = "rendering"
    /\ Len(ev.reqs) = 1

\* C10: a new search makes exactly one provider request, for page 1 with page
\* size 25 and the command's query, and what it stores is display page 0; a
\* request made by a navigation asks for page floor(5 target / 25) + 1 with
\* page size 25 and the query of the session's search.
C10_RequestParameters ==
    [][/\ (ev'.step = "orchestrate" /\ ev'.kind = "search" /\ sent' = sent + 1 =>
              /\ ev'.msg = sent'
              /\ ev'.reqs = <<[query |-> QueryOf(sent'), page_size |-> 25, page |-> 1]>>
              /\ (HasKey(cache', sent') /\ ev'.outcome = "rendering" =>
                     /\ EntryOf(cache', sent').element.cur_page = 0
                     /\ EntryOf(cache', sent').element.query = QueryOf(sent')))
       /\ \A h \in DOMAIN hs :
             Resumed(h) =>
                LET target == hs[h].cache_item.cur_page + hs[h].page_mod
                IN \A i \in 1..Len(ev'.reqs) :
                      ev'.reqs[i] = [query |-> QueryOf(hs[h].msg), page_size |-> 25,
                                     page |-> BatchOf(target) + 1]]_vars

\* C10's case: a navigation has asked the provider for the second batch of
\* the second session's query.
C10_Witness ==
    /\ ev.step = "orchestrate" /\ ev.kind = "nav" /\ ev.msg = 2
    /\ ev.reqs # <<>>
    /\ ev.reqs[1].page = 2

(***************************************************************************)
(* Properties of the cog with its display (SpecShow, SpecSessions).        *)
(***************************************************************************)
\* Handler h starts to render in this step: it leaves the orchestrator with a
\* provider response of one record or more.
Renders(h) == hs[h].pc \in {"idle", "clear"} /\ hs'[h].pc = "edit"

\* Handler h returns normally in this step, its message edited.
Completes(h) == hs[h].pc \in {"edit0", "edit", "react"} /\ hs'[h].pc = "idle"

\* C11: a new search stores an entry for its message exactly when the
\* provider's count is above 5, both when it decides and when it completes;
\* with 1 to 5 results it renders and leaves the cache as it was; an entry is
\* only ever created by the search that sent the message, so a reaction on a
\* message whose search did not cache is ignored.
C11_CachedIffSeveralPages ==
    [][/\ \A h \in DOMAIN hs :
             /\ (Renders(h) /\ hs'[h].kind = "search" =>
                    LET count == hs'[h].response_data[1].count
                    IN /\ HasKey(cache', hs'[h].msg) <=> count > 5
                       /\ count <= 5 => cache' = cache /\ last' = last)
             /\ (Completes(h) /\ hs[h].kind = "search" /\ hs[h].pc # "edit0" =>
                    (HasKey(cache', hs[h].msg)
                        <=> hs[h].response_data[1].count > 5))
       /\ \A m \in 1..MsgIds :
             /\ (HasKey(cache', m) /\ ~HasKey(cache, m) =>
                    /\ ev'.step = "orchestrate" /\ ev'.kind = "search"
                    /\ ev'.msg = m /\ sent' = m /\ sent = m - 1)
             /\ (ev'.step = "reaction" /\ ev'.msg = m /\ ~HasKey(cache, m) =>
                    /\ ev'.outcome = "absent"
                    /\ UNCHANGED <<cache, hs, shown, controls>>)]_vars

\* C11's case: a search with 3 results was rendered without an entry while
\* another session is cached, and a reaction on its message was ignored.
C11_Witness ==
    /\ ev.step = "reaction" /\ ev.outcome = "absent"
    /\ shown[ev.msg].kind = "page" /\ shown[ev.msg].total_results = 3
    /\ ~HasKey(cache, ev.msg)
    /\ cache # <<>>

\* C12: a provider count of 0 leads to the no-results page and a normal
\* return: the handler does not raise, writes nothing to the cache and leaves
\* the message without controls.
C12_NoResultsPage ==
    [][\A h \in DOMAIN hs :
          /\ (hs[h].pc \in {"idle", "clear"} /\ hs'[h].pc \in {"edit0", "edit"} =>
                 (hs'[h].pc = "edit0" <=> hs'[h].response_data[1].count = 0))
          /\ (hs[h].pc # "edit0" /\ hs'[h].pc = "edit0" =>
                 /\ ev'.step = "orchestrate" /\ ev'.outcome = "empty"
                 /\ cache' = cache /\ last' = last
                 /\ controls'[hs'[h].msg] = {})
          /\ (hs[h].pc = "edit0" /\ hs'[h] # hs[h] =>
                 /\ hs'[h] = IdleHandler
                 /\ ev'.step = "edit" /\ ev'.outcome = "no_results"
                 /\ shown'[hs[h].msg].kind = "no_results"
                 /\ cache' = cache /\ last' = last
                 /\ controls' = controls
                 /\ controls'[hs[h].msg] = {})]_vars

\* C12's case: the no-results page has been rendered and the handler is back.
C12_Witness ==
    /\ ev.step = "edit" /\ ev.outcome = "no_results"
    /\ shown[ev.msg].kind = "no_results"
    /\ controls[ev.msg] = {}
    /\ hs[1].pc = "idle"

\* C13: a reaction on a message without a cache entry is ignored: no provider
\* request, no handler left running, the message and its controls untouched,
\* and the cache (keys, entries, last_modified) as before.
C13_AbsentSessionIgnored ==
    [][\A m \in 1..MsgIds :
          ev'.step = "reaction" /\ ev'.msg = m /\ ~HasKey(cache, m) =>
             /\ ev'.outcome = "absent"
             /\ ev'.reqs = <<>>
             /\ hs' = hs
             /\ shown' = shown /\ controls' = controls
             /\ cache' = cache /\ capacity' = capacity /\ last' = last
             /\ written' = written]_vars

\* C13's case: a reaction on a message whose entry has been evicted, while
\* another session is cached.
C13_Witness ==
    /\ ev.step = "reaction" /\ ev.outcome = "absent"
    /\ written[ev.msg].by # "none"
    /\ ~HasKey(cache, ev.msg)
    /\ shown[ev.msg].kind = "page"
    /\ cache # <<>>

\* C14: a reaction by anyone but the requester recorded in the session's
\* entry changes nothing, whatever the emoji: no provider request, no handler
\* left running, every entry, the messages and their controls as before; a
\* handler is only started by the requester's reaction, and a session's
\* cur_page is only changed by a handler started for that session.
C14_OnlyRequesterNavigates ==
    [][/\ \A m \in 1..MsgIds :
             /\ (/\ ev'.step = "reaction" /\ ev'.msg = m /\ HasKey(cache, m)
                 /\ ev'.actor # EntryOf(cache, m).element.discord_user_id
                 => /\ ev'.reqs = <<>>
                    /\ hs' = hs
                    /\ shown' = shown /\ controls' = controls
                    /\ cache' = cache /\ last' = last /\ written' = written)
             /\ (/\ HasKey(cache, m) /\ HasKey(cache', m)
                 /\ EntryOf(cache', m).element.cur_page
                       # EntryOf(cache, m).element.cur_page
                 => \E h \in DOMAIN hs : Resumed(h) /\ hs[h].msg = m)
       /\ \A h \in DOMAIN hs :
             hs[h].pc = "idle" /\ hs'[h].pc = "clear" =>
                /\ ev'.step = "reaction" /\ ev'.msg = hs'[h].msg
                /\ HasKey(cache, hs'[h].msg)
                /\ ev'.actor = EntryOf(cache, hs'[h].msg).element.discord_user_id]_vars

\* C14's case: a user who is not the requester has reacted on a cached
\* session that has a further page.
C14_Witness ==
    /\ ev.step = "reaction"
    /\ HasKey(cache, ev.msg)
    /\ ev.actor # EntryOf(cache, ev.msg).element.discord_user_id
    /\ EntryOf(cache, ev.msg).element.cur_page = 1

\* The requester has reacted with emoji e on message m, whose session is
\* cached, in this step.
RequesterReacts(m, e) ==
    /\ ev'.step = "reaction" /\ ev'.msg = m /\ ev'.emoji = e
    /\ HasKey(cache, m)
    /\ ev'.actor = EntryOf(cache, m).element.discord_user_id

\* Display page p is the last page of count records: ceil(count / 5) - 1 = p.
IsLastPage(p, count) == 5 * p < count /\ count <= 5 * (p + 1)

\* C15: at display page 0 a First or Previous reaction, and at the last page a
\* Next or Last reaction, does nothing: no handler goes on, no provider
\* request, the message, its controls and the cache (entries and
\* last_modified) as before.
C15_BoundaryNoOp ==
    [][\A m \in 1..MsgIds, e \in Emojis :
          /\ RequesterReacts(m, e)
          /\ LET item == EntryOf(cache, m).element
             IN \/ item.cur_page = 0 /\ e \in {first_page_emoji, previous_page_emoji}
                \/ /\ IsLastPage(item.cur_page, item.response_data[1].count)
                   /\ e \in {next_page_emoji, last_page_emoji}
          => /\ ev'.reqs = <<>>
             /\ hs' = hs
             /\ shown' = shown /\ controls' = controls
             /\ cache' = cache /\ last' = last /\ written' = written]_vars

\* C15's case: the requester has reacted Next on the last of three pages.
C15_Witness ==
    /\ ev.step = "reaction" /\ ev.emoji = next_page_emoji
    /\ HasKey(cache, ev.msg)
    /\ ev.actor = EntryOf(cache, ev.msg).element.discord_user_id
    /\ EntryOf(cache, ev.msg).element.cur_page = 2
    /\ EntryOf(cache, ev.msg).element.response_data[1].count = 12
    /\ shown[ev.msg].kind = "page" /\ shown[ev.msg].cur_page = 3

\* The page a reaction with emoji e aims at from page p with last page L;
\* <<>> where the reaction is no navigation.
Target(p, L, e) ==
    IF e = first_page_emoji /\ p > 0 THEN <<0>>
    ELSE IF e = previous_page_emoji /\ p > 0 THEN <<p - 1>>
    ELSE IF e = next_page_emoji /\ p < L THEN <<p + 1>>
    ELSE IF e = last_page_emoji /\ p < L THEN <<L>>
    ELSE <<>>

\* C16: the requester's reaction on a cached session at page p with last page
\* L = ceil(count / 5) - 1 starts a handler for First -> 0, Previous -> p - 1
\* (p > 0), Next -> p + 1, Last -> L (p < L); and when that handler completes,
\* the session's entry has that target as its cur_page.
C16_NavigationTargets ==
    [][/\ \A m \in 1..MsgIds, e \in Emojis :
             RequesterReacts(m, e) =>
                LET item == EntryOf(cache, m).element
                    L == ((item.response_data[1].count + 4) \div 5) - 1
                    target == Target(item.cur_page, L, e)
                IN target # <<>> =>
                      \E h \in DOMAIN hs :
                         /\ hs[h].pc = "idle" /\ hs'[h].pc = "clear"
                         /\ hs'[h].msg = m
                         /\ hs'[h].cache_item.cur_page + hs'[h].page_mod = target[1]
       /\ \A h \in DOMAIN hs :
             Completes(h) /\ hs[h].kind = "nav" =>
                /\ HasKey(cache', hs[h].msg)
                /\ EntryOf(cache', hs[h].msg).element.cur_page
                      = hs[h].cache_item.cur_page + hs[h].page_mod]_vars

\* Handler h completes a render of a page in this step (its message shows a
\* page of results, and the controls of that page, if any, are on it).
CompletesRender(h) == Completes(h) /\ hs[h].pc \in {"edit", "react"}

\* C17: when a render of display page p out of N = ceil(count / 5) pages
\* completes, the controls on the message are First and Previous exactly when
\* p > 0, and Next and Last exactly when p < N - 1; the page of a single-page
\* result has none.
C17_ControlsOfPage ==
    [][\A h \in DOMAIN hs :
          CompletesRender(h) =>
             LET p == hs[h].discord_page
                 N == (hs[h].response_data[1].count + 4) \div 5
                 c == controls'[hs[h].msg]
             IN /\ (first_page_emoji \in c <=> p > 0)
                /\ (previous_page_emoji \in c <=> p > 0)
                /\ (next_page_emoji \in c <=> p < N - 1)
                /\ (last_page_emoji \in c <=> p < N - 1)
                /\ c \subseteq {first_page_emoji, previous_page_emoji,
                                next_page_emoji, last_page_emoji}
                /\ (p < N /\ N = 1 => c = {})]_vars

\* C17's case: a render of a middle page has completed with all four controls.
C17_Witness ==
    /\ ev.step = "react" /\ hs[1].pc = "idle"
    /\ shown[ev.msg].kind = "page"
    /\ shown[ev.msg].cur_page = 2 /\ shown[ev.msg].total_pages = 3
    /\ controls[ev.msg] = {first_page_emoji, previous_page_emoji,
                           next_page_emoji, last_page_emoji}

\* Records lo..hi as the message lists them: numbered by their global position.
Listed(lo, hi) == [i \in 1..(hi - lo + 1) |-> [num |-> lo + i - 1, res |-> lo + i - 1]]

\* The session of cache_item is one of the scenario: its cached batch holds
\* the 12 matches and its page is one of their three pages.
InTwelve(cache_item) ==
    /\ cache_item.response_data # None
    /\ cache_item.response_data[1].count = 12
    /\ cache_item.request_page = 0
    /\ cache_item.cur_page \in {0, 1, 2}

\* C18: with 12 matches upstream, the search makes the one request page = 1,
\* page_size = 25, caches the 12 records and shows records 1-5 with Next and
\* Last; the navigations of that session make no request; page 2 shows records
\* 6-10 with all four controls and page 3 shows records 11-12 with First and
\* Previous.
C18_TwelveMatches ==
    [][\A h \in DOMAIN hs :
          /\ (/\ Renders(h) /\ hs'[h].kind = "search"
              /\ hs'[h].response_data[1].count = 12
              => /\ ev'.reqs = <<[query |-> QueryOf(hs'[h].msg), page_size |-> 25,
                                  page |-> 1]>>
                 /\ HasKey(cache', hs'[h].msg)
                 /\ EntryOf(cache', hs'[h].msg).element.response_data[1].results
                       = <<1, 2, 3, 4, 5, 6, 7, 8, 9, 10, 11, 12>>
                 /\ hs'[h].discord_page = 0)
          /\ (Resumed(h) /\ InTwelve(hs[h].cache_item) => ev'.reqs = <<>>)
          /\ ((/\ CompletesRender(h) /\ hs[h].response_data[1].count = 12
               /\ (hs[h].kind = "search" \/ InTwelve(hs[h].cache_item))) =>
                 LET m == hs[h].msg
                     p == hs[h].discord_page
                 IN /\ p \in {0, 1, 2}
                    /\ (p = 0 => /\ shown'[m].records = Listed(1, 5)
                                 /\ controls'[m] = {next_page_emoji, last_page_emoji})
                    /\ (p = 1 => /\ shown'[m].records = Listed(6, 10)
                                 /\ controls'[m] = {first_page_emoji, previous_page_emoji,
                                                    next_page_emoji, last_page_emoji})
                    /\ (p = 2 => /\ shown'[m].records = Listed(11, 12)
                                 /\ controls'[m] = {first_page_emoji,
                                                    previous_page_emoji}))]_vars

\* C18's case: the third page of the 12 matches is shown after a navigation.
C18_Witness ==
    /\ ev.step = "react" /\ ev.kind = "nav" /\ hs[1].pc = "idle"
    /\ shown[ev.msg].kind = "page" /\ shown[ev.msg].total_results = 12
    /\ shown[ev.msg].records = Listed(11, 12)
    /\ controls[ev.msg] = {first_page_emoji, previous_page_emoji}
    /\ HasKey(cache, ev.msg)
    /\ EntryOf(cache, ev.msg).element.cur_page = 2

\* C19: when the provider answers the request of a step with a status other
\* than 200, the handler raises a BlossomException carrying that status and
\* the payload, makes no further request, and leaves the cache as it was (no
\* entry created, changed, refreshed or evicted); the handler is done.
C19_UpstreamErrorRaised ==
    [][ev'.step = "orchestrate" /\ ev'.resp # None =>
          LET response == ev'.resp[1]
          IN response.status_code # 200 =>
                /\ ev'.outcome = "raised"
                /\ ev'.exc # None
                /\ ev'.exc[1].type = "BlossomException"
                /\ ev'.exc[1].status = StatusStr(response.status_code)
                /\ response.json # None /\ ev'.exc[1].data = response.json
                /\ Len(ev'.reqs) = 1
                /\ cache' = cache /\ capacity' = capacity
                /\ last' = last /\ written' = written
                /\ \A h \in DOMAIN hs : hs'[h].pc = "idle"]_vars

\* C20: the page edited into the message for display page p of count records
\* lists exactly the records at positions 5p + 1 .. min(5p + 5, count) of the
\* upstream order, each numbered with its position, and they are the batch's
\* records[offset : offset + 5] for offset = 5p - 25 * floor(5p / 25).
C20_RecordsOfPage ==
    [][\A h \in DOMAIN hs :
          hs[h].pc = "edit" /\ hs'[h] # hs[h] =>
             LET m == hs[h].msg
                 p == hs[h].discord_page
                 batch == hs[h].response_data[1]
                 offset == 5 * p - 25 * BatchOf(p)
                 records == shown'[m].records
             IN /\ shown'[m].kind = "page"
                /\ records = Listed(5 * p + 1, Min(5 * p + 5, batch.count))
                /\ Len(records) = Max(0, Min(5, Len(batch.results) - offset))
                /\ \A i \in 1..Len(records) :
                      /\ records[i].res = batch.results[offset + i]
                      /\ records[i].num = 5 * p + i]_vars

\* C20's case: the sixth page of 27 records, the first of the second batch,
\* lists records 26 and 27.
C20_Witness ==
    /\ ev.step = "edit" /\ ev.outcome = "page"
    /\ shown[ev.msg].kind = "page" /\ shown[ev.msg].cur_page = 6
    /\ shown[ev.msg].total_results = 27
    /\ shown[ev.msg].records = Listed(26, 27)

(***************************************************************************)
(* Further properties of SearchCache (SpecCache) and of the page           *)
(* arithmetic (SpecPage).                                                  *)
(***************************************************************************)
\* C24: a set removes at most one entry: with a new key on a full cache
\* exactly one entry goes, with a new key on a cache that is not full none
\* goes, and an overwrite removes none and leaves the element and the
\* last_modified of every other key as they were.
C24_SetRemovesAtMostOne ==
    [][last'.op = "set" =>
        LET k == last'.key
            removed == (KeysOf(cache) \cup {k}) \ KeysOf(cache')
            full == Len(cache) >= capacity
        IN /\ Cardinality(removed) <= 1
           /\ (~HasKey(cache, k) /\ full) => Cardinality(removed) = 1
           /\ (~HasKey(cache, k) /\ ~full) => removed = {}
           /\ HasKey(cache, k) =>
                 /\ removed = {}
                 /\ \A j \in KeysOf(cache) \ {k} :
                       /\ HasKey(cache', j)
                       /\ Lookup(cache', j) = Lookup(cache, j)]_vars

\* C24's case: a key of a full cache of two entries has just been overwritten
\* with a new time, and the other key is still there.
C24_Witness ==
    /\ last.op = "set" /\ last.hit /\ last.full /\ last.evicted = 0
    /\ capacity = 2 /\ Len(cache) = 2
    /\ \E i, j \in 1..2 :
          /\ cache[i].key = last.key /\ cache[i].last_modified = last.time
          /\ cache[j].key # last.key /\ cache[j].last_modified > last.time

\* C29: request_page_size is a multiple of discord_page_size (25 and 5), and
\* every display page p >= 0 lies inside one request batch: its offset is at
\* least 0, a multiple of discord_page_size, and the page's last record is
\* within the batch (offset + discord_page_size <= request_page_size).
C29_PageInsideBatch ==
    /\ request_page_size = 25 /\ discord_page_size = 5
    /\ request_page_size % discord_page_size = 0
    /\ pm.pc = "mapped" =>
          /\ 0 <= pm.result_offset
          /\ pm.result_offset % discord_page_size = 0
          /\ pm.result_offset + discord_page_size <= request_page_size

\* C29's case: display page 9, the last page of the second batch, has been
\* mapped; its five records end with the batch.
C29_Witness ==
    /\ pm.pc = "mapped" /\ pm.discord_page = 9
    /\ pm.result_offset + discord_page_size = request_page_size

\* C30: with a capacity of at least 1, a set never evicts the entry it
\* writes, unless its time is older than the last_modified of every other
\* entry (a tie with the oldest is not older): a get of the key right after
\* the set returns the entry written.
C30_WrittenEntrySurvives ==
    [][last'.op = "set" =>
        LET k == last'.key
            t == last'.time
            others == {i \in 1..Len(cache) : cache[i].key # k}
            older == others # {} /\ \A i \in others : t < cache[i].last_modified
        IN (capacity >= 1 /\ ~older) =>
              /\ HasKey(cache', k)
              /\ last'.evicted # k
              /\ SearchCacheGet(cache', heap, k).result
                    = Some(SearchCacheItem(k, 0, t, None, 0))]_vars

\* C30's case: a new key was written to a full cache with the smallest time
\* there is, so that it ties with the oldest entry, and another key went.
C30_Witness ==
    /\ last.op = "set" /\ ~last.hit /\ last.full
    /\ capacity >= 1
    /\ last.time = 0
    /\ last.evicted \notin {0, last.key}
    /\ HasKey(cache, last.key)

(***************************************************************************)
(* Properties of the highlighter (SpecHighlight, SpecDescribe).            *)
(***************************************************************************)
\* The lines of a str that ends with a line feed.
LinesOf(out) == SplitLines(out)

\* C21: when the label "L<n>: " and the query together are at most 56
\* characters long, the context line of format_query_occurrence (its first
\* line, without the line feed) is at most 56 characters long, whatever the
\* lengths of the text to the left and to the right of the match.
C21_ContextLineWithinBudget ==
    (pm.pc = "done" /\ Len(LineNumStr(pm.line_num)) + Len(pm.query) <= 56) =>
        Len(LinesOf(pm.out)[1]) <= 56

C23_ShownAndTrailer ==
    pm.pc = "done" =>
        LET total == Count(Casefold(pm.text), Casefold(pm.query))
            occs == pm.out.occurrences
            lines == SplitLines(pm.text)
        IN /\ Len(occs) = Min(4, total)
           /\ \A j \in 1..Len(occs) : occs[j].line_num \in 1..Len(lines)
           /\ \A j \in 1..(Len(occs) - 1) :
                 \/ occs[j].line_num < occs[j + 1].line_num
                 \/ /\ occs[j].line_num = occs[j + 1].line_num
                    /\ occs[j].pos < occs[j + 1].pos
           /\ (pm.out.more_occurrences # None) <=> (Len(occs) < total)
           /\ (pm.out.more_occurrences # None) =>
                 pm.out.more_occurrences[1] = total - Len(occs)

(***************************************************************************)
(* Properties of concurrent handlers (SpecRace, SpecSame) and of the       *)
(* controls in the long run (SpecLive).                                    *)
(***************************************************************************)
\* No handler is at an await for message m.
Quiet(m) == \A h \in DOMAIN hs : hs[h].pc = "idle" \/ hs[h].msg # m

\* The response_data a handler may store for the entry it holds and the page
\* it goes to: the one it holds, or an answer to its own request.
OwnResponses(held, discord_page, counts) ==
    {held.response_data}
    \cup {response.json :
            response \in Responses(RequestParams(held, RequestPage(discord_page)),
                                   counts)}

\* C25: whatever the interleaving of the handlers at their awaits, the entry
\* stored under a message id is only written by a handler for that message:
\* by the /search command that sent the message, or by a navigation handler
\* of the message that resumes.  What is written is computed from that
\* message's own entry (query and requester as held, cur_page the held one
\* plus page_mod) and from the held batch or an answer to its own request.
\* Entries under other ids stay as they are or are evicted.
C25_SessionsApart ==
    [][\A m \in 1..RaceMsgs :
          LET before == Lookup(cache, m)
              after == Lookup(cache', m)
          IN (after # <<>> /\ after # before) =>
                LET entry == after[1].element
                IN \/ /\ sent' = sent + 1 /\ m = sent'
                      /\ ev'.kind = "search" /\ ev'.msg = m
                      /\ entry.query = QueryOf(m)
                      /\ entry.cur_page = 0
                      /\ entry.response_data
                            \in OwnResponses(SearchCacheItem(QueryOf(m),
                                                             entry.discord_user_id,
                                                             0, None, 0),
                                             0, RaceCounts) \ {None}
                   \/ \E h \in DOMAIN hs :
                         /\ hs[h].pc = "clear" /\ hs'[h].pc # "clear"
                         /\ hs[h].msg = m
                         /\ ev'.kind = "nav" /\ ev'.msg = m
                         /\ hs[h].cache_item.query = QueryOf(m)
                         /\ entry.query = hs[h].cache_item.query
                         /\ entry.discord_user_id = hs[h].cache_item.discord_user_id
                         /\ entry.cur_page = hs[h].cache_item.cur_page + hs[h].page_mod
                         /\ entry.response_data
                               \in OwnResponses(hs[h].cache_item, entry.cur_page,
                                                RaceCounts)]_vars

\* C25's case: the navigation handler of message 1 has just written its
\* entry (page 1) while the handler of message 2, taken up when the first
\* slot was busy, is at its await; the session of message 2, of another
\* requester, is as that handler read it.
C25_Witness ==
    /\ hs[2].pc = "clear" /\ hs[2].msg = 2
    /\ ev.step = "orchestrate" /\ ev.kind = "nav" /\ ev.msg = 1
    /\ ev.outcome = "rendering"
    /\ HasKey(cache, 1) /\ HasKey(cache, 2)
    /\ EntryOf(cache, 1).element.cur_page = 1
    /\ EntryOf(cache, 2).element = hs[2].cache_item
    /\ EntryOf(cache, 1).element.discord_user_id
          # EntryOf(cache, 2).element.discord_user_id

\* C26: nothing serialises the handlers of one message.  A navigation handler
\* that resumes writes the page it computed from the entry it read when its
\* reaction arrived, cur_page + page_mod, whatever the entry has become since:
\* when two handlers have read the entry at page p, the write of the second
\* replaces that of the first (two Next reactions end at p + 1, not p + 2).
C26_WritesFromHeldRead ==
    [][\A h \in DOMAIN hs :
          (hs[h].pc = "clear" /\ hs'[h].pc = "edit") =>
             /\ HasKey(cache', hs[h].msg)
             /\ EntryOf(cache', hs[h].msg).element.cur_page
                   = hs[h].cache_item.cur_page + hs[h].page_mod]_vars

\* C26's case: two Next reactions on message 1 at page 0 of 3 pages were both
\* taken up before either handler wrote; both handlers have written and
\* edited the message and are at their last await, and the entry is at page 1.
C26_Witness ==
    /\ \A h \in DOMAIN hs :
          /\ hs[h].pc = "react" /\ hs[h].kind = "nav" /\ hs[h].msg = 1
          /\ hs[h].cache_item.cur_page = 0 /\ hs[h].page_mod = 1
          /\ LastPage(hs[h].cache_item) >= 2
    /\ HasKey(cache, 1)
    /\ EntryOf(cache, 1).element.cur_page = 1

\* An accepted navigation on message m is about to clear the controls.
NavClearing(m) ==
    \E h \in DOMAIN hs : hs[h].pc = "clear" /\ hs[h].kind = "nav" /\ hs[h].msg = m

\* C27: a navigation that is not a no-op clears the controls before it
\* renders, and once it does, controls are attached again: a message whose
\* session is still cached does not stay without controls for good.
C27_ControlsReattached ==
    \A m \in 1..ShowMsgs :
        NavClearing(m) ~> (controls[m] # {} \/ ~HasKey(cache, m))

\* C28: whenever no handler is at an await for a message with a cached
\* session, the message shows the page of the entry's cur_page and has the
\* controls of that page.
C28_DisplayIsStoredPage ==
    \A m \in 1..SameMsgs :
        (HasKey(cache, m) /\ Quiet(m)) =>
            LET item == EntryOf(cache, m).element
                total_discord_pages == CeilDiv(item.response_data[1].count,
                                               discord_page_size)
            IN /\ shown[m].kind = "page"
               /\ shown[m].cur_page = item.cur_page + 1
               /\ controls[m] = EmojiControls(item.cur_page, total_discord_pages)

=============================================================================
